---- MODULE Spec2Model ----
(***************************************************************************)
(* A model of the personal-assistant front end:                            *)
(*   - lib/audio-manager.ts   : AudioManager (recording, dispatch, TTS     *)
(*                              playback queue)                            *)
(*   - hooks/use-langchain-chat.ts : useLangchainChat (SSE frame decoding  *)
(*                              and transcript assembly)                   *)
(* Six specifications share the module:                                    *)
(*   SpecPlay   the playback sequencer  (speak / playNextInQueue / stop)   *)
(*   SpecRec    the recording lifecycle (startListening / stopListening)   *)
(*   SpecChat   the transcript assembler, fed whole frames                 *)
(*   SpecDecode the frame decoder, fed a byte stream cut at any place      *)
(*   SpecLive   the manager with the browser's events delivered in the end  *)
(*   SpecPage   the hook as the page uses it: sendMessage() calls that     *)
(*              overlap, resetChat(), frames of several lines              *)
(***************************************************************************)
EXTENDS Integers, Sequences, FiniteSets, TLC

\* ------------------------------------------------------------------ bounds
MaxSpeak == 3      \* speak() calls with non-blank text in one run
MaxListen == 2     \* startListening() calls in one run
MaxStop == 2       \* stopListening() calls in one run
MaxCleanup == 1    \* cleanup() calls in one run
MaxTurns == 2      \* sendMessage() calls with non-blank text in one run
MaxFrames == 3     \* frames the server sends in one run (SpecChat)
MaxChunkFrames == 2 \* frames that arrive in one chunk (SpecChat)
MaxNetFrames == 3  \* frames of the byte stream that is cut anywhere (SpecDecode)
MaxReset == 1      \* resetChat() calls in one run (SpecPage)
MaxPageFrames == 2 \* frames the server sends in one run (SpecPage)

\* ------------------------------------------------------------------ state
VARIABLES
  \* ---- AudioManager, TTS part (audio-manager.ts:25-26, 162-234)
  audioQueue,   \* this.audioQueue : sequence of Audio elements (by id)
  isPlaying,    \* this.isPlaying
  calls,        \* number of speak() calls made with non-blank text
  synth,        \* per speak() call: the state of its fetch to /tts/synthesize
  phase,        \* per Audio element: what the browser is doing with it
  revoked,      \* per Audio element: number of URL.revokeObjectURL(audio.src)
  speakStarts,  \* number of options.onSpeakStart() calls
  speakEnds,    \* number of options.onSpeakEnd() calls
  playErrors,   \* number of options.onError() calls of the TTS part
  startLog,     \* the elements play() was called on, in order
  hist          \* what has happened in the run (history, read by the properties)

VARIABLES
  \* ---- AudioManager, capture and recording part (audio-manager.ts:13-22)
  stream,         \* this.stream is set
  audioContext,   \* this.audioContext is set
  analyser,       \* this.analyser is set
  microphone,     \* this.microphone is set
  dataArray,      \* this.dataArray is set
  animationFrame, \* this.animationFrame: 0 for null, else the sampling loop
                  \* whose requestAnimationFrame it holds
  mediaRecorder,  \* this.mediaRecorder: "null", or the state of the recorder
  audioChunks,    \* this.audioChunks: the number of chunks held
  acquiring,      \* startListening() calls awaiting getUserMedia
  pendingStops,   \* recorders stopped whose dataavailable/stop events are due
  inflight,       \* requests to /stt/transcribe awaiting their response
  rafPending,     \* the sampling loops with a requested animation frame
  env,            \* the browser's side: streams, contexts and loops created,
                  \* streams stopped and contexts closed
  listens,        \* number of startListening() calls
  stops,          \* number of stopListening() calls
  cleanups,       \* number of cleanup() calls
  signals         \* the callbacks delivered to the caller, counted

VARIABLES
  \* ---- useLangchainChat (use-langchain-chat.ts:40-44, 77-86)
  messages,         \* the messages state as last rendered
  pending,          \* the setMessages updaters React has queued, in order
  isLoading,        \* the isLoading state
  isStreaming,      \* the isStreaming state
  streamingContent, \* the streamingContent state (the partial text)
  pc,               \* where the running sendMessage() call is
  turn,             \* number of sendMessage() calls made with non-blank text
  acc,              \* per call: its currentAssistantMessage object
  buffer,           \* the read loop's `buffer`
  held,             \* the bytes the TextDecoder holds of an unfinished character
  net,              \* the bytes of the response body not yet read (SpecDecode)
  chist             \* history of the running call, read by the properties

VARIABLES
  \* ---- useLangchainChat as the page uses it (SpecPage)
  input,            \* the input state (use-langchain-chat.ts:41)
  reset,            \* the resetChat() call: where it is, how many were made,
                    \* whether the last one was answered with a 2xx status
  other             \* the pc, turn, buffer and held of a second sendMessage()
                    \* call, suspended at an await while the first one runs

hvars == <<input, reset, other>>

cvars == <<messages, pending, isLoading, isStreaming, streamingContent, pc,
           turn, acc, buffer, held, net, chist>>

rvars == <<stream, audioContext, analyser, microphone, dataArray, animationFrame,
           mediaRecorder, audioChunks, acquiring, pendingStops, inflight,
           rafPending, env, listens, stops, cleanups, signals>>

pvars == <<audioQueue, isPlaying, calls, synth, phase, revoked,
           speakStarts, speakEnds, playErrors, startLog, hist>>

\* what the playback actions, and the recording actions, leave alone
nonPlay == <<rvars, cvars, hvars>>
nonRec == <<pvars, cvars, hvars>>
nonChat == <<pvars, rvars, hvars>>

Items == 1..MaxSpeak

\* The texts speak() is called with: one blank, one not.
Texts == {"  ", "hi"}

\* text.trim() being empty (audio-manager.ts:163)
IsBlank(text) == text = "  " \/ text = ""

\* ------------------------------------------------- playback: pure helpers
\* The playback part of the manager as one record, so that a handler that
\* calls another handler (onEnded -> playNextInQueue) composes as a function.
PB == [queue   |-> audioQueue,  playing |-> isPlaying, phase |-> phase,
       revoked |-> revoked,     starts  |-> speakStarts,
       ends    |-> speakEnds,   errors  |-> playErrors, log |-> startLog]

SetPB(s) ==
  /\ audioQueue'  = s.queue
  /\ isPlaying'   = s.playing
  /\ phase'       = s.phase
  /\ revoked'     = s.revoked
  /\ speakStarts' = s.starts
  /\ speakEnds'   = s.ends
  /\ playErrors'  = s.errors
  /\ startLog'    = s.log

\* Array.prototype.shift(): removes the first element, nothing on an empty array
Shift(q) == IF Len(q) = 0 THEN q ELSE Tail(q)

\* URL.revokeObjectURL(audio.src)
RevokeObjectURL(s, a) == [s EXCEPT !.revoked[a] = @ + 1]

\* options.onError?.(...)
OnError(s) == [s EXCEPT !.errors = @ + 1]

\* a variant of playNextInQueue() that leaves the flag set on an empty queue
PlayNextInQueueKeepsFlag(s) ==
  IF Len(s.queue) = 0
  THEN [s EXCEPT !.ends = @ + 1]
  ELSE LET audio == Head(s.queue)
       IN  [s EXCEPT !.playing = TRUE,
                     !.starts = @ + 1,
                     !.log = Append(@, audio),
                     !.phase[audio] = "starting"]

\* playNextInQueue(), audio-manager.ts:192-221.  audio.play() leaves the
\* element "starting": its promise is pending.
PlayNextInQueue(s) ==
  IF Len(s.queue) = 0
  THEN [s EXCEPT !.playing = FALSE, !.ends = @ + 1]
  ELSE LET audio == Head(s.queue)
       IN  [s EXCEPT !.playing = TRUE,
                     !.starts = @ + 1,
                     !.log = Append(@, audio),
                     !.phase[audio] = "starting"]

\* onEnded, the closure of playNextInQueue over `audio`, audio-manager.ts:202-206
OnEnded(s, audio) ==
  PlayNextInQueue([RevokeObjectURL(s, audio) EXCEPT !.queue = Shift(@)])

\* the "error" listener, audio-manager.ts:209-213
OnErrorEvent(s, audio) == OnEnded(OnError(s), audio)

\* the handler of a rejected audio.play(), audio-manager.ts:216-220
OnPlayRejected(s, audio) == OnEnded(OnError(s), audio)

RECURSIVE RevokeAll(_, _)
\* this.audioQueue.forEach(audio => URL.revokeObjectURL(audio.src))
RevokeAll(s, q) ==
  IF Len(q) = 0 THEN s ELSE RevokeAll(RevokeObjectURL(s, Head(q)), Tail(q))

\* HTMLMediaElement.pause(): a pending play() promise is rejected (AbortError),
\* the rejection is delivered later; a playing element is paused.
Pause(s, a) ==
  [s EXCEPT !.phase[a] = CASE @ = "starting" -> "aborting"
                           [] @ = "playing"  -> "paused"
                           [] OTHER          -> @]

\* a variant of stopSpeaking() that releases the head item alone
StopSpeakingHeadOnly(s) ==
  IF Len(s.queue) > 0
  THEN LET currentAudio == Head(s.queue)
           t == RevokeObjectURL(Pause(s, currentAudio), currentAudio)
       IN  [t EXCEPT !.queue = <<>>, !.playing = FALSE, !.ends = @ + 1]
  ELSE s

\* stopSpeaking(), audio-manager.ts:223-234
StopSpeakingFn(s) ==
  IF Len(s.queue) > 0
  THEN LET currentAudio == Head(s.queue)
           t == RevokeAll(Pause(s, currentAudio), s.queue)
       IN  [t EXCEPT !.queue = <<>>, !.playing = FALSE, !.ends = @ + 1]
  ELSE s

\* The tail of speak() after a successful synthesis, audio-manager.ts:179-185:
\* a new Audio element `a` is pushed, and played if nothing is playing.
Enqueue(s, a) ==
  LET t == [s EXCEPT !.queue = Append(@, a), !.phase[a] = "new"]
  IN  IF ~t.playing THEN PlayNextInQueue(t) ELSE t

\* a variant of the catch block of speak() that moves the queue on
SpeakCatchAdvances(s) == PlayNextInQueue(OnError(s))

\* the catch block of speak(), audio-manager.ts:186-189
SpeakCatch(s) == OnError(s)

\* ------------------------------------------------------ playback: actions
InitPlay ==
  /\ audioQueue = <<>>
  /\ isPlaying = FALSE
  /\ calls = 0
  /\ synth = [i \in Items |-> "none"]
  /\ phase = [i \in Items |-> "none"]
  /\ revoked = [i \in Items |-> 0]
  /\ speakStarts = 0
  /\ speakEnds = 0
  /\ playErrors = 0
  /\ startLog = <<>>
  /\ hist = [burst |-> TRUE, failed |-> FALSE, stopped |-> FALSE, quiet |-> FALSE]

\* speak(text) up to its await of fetch, audio-manager.ts:162-172.  The call
\* is numbered in call order; its Audio element, if any, gets that number.
Speak ==
  /\ UNCHANGED nonPlay
  /\ \E text \in Texts :
       /\ calls < MaxSpeak
       /\ IF IsBlank(text)
          THEN UNCHANGED pvars
          ELSE /\ calls' = calls + 1
               /\ synth' = [synth EXCEPT ![calls + 1] = "inflight"]
               /\ hist' = [hist EXCEPT !.burst =
                             @ /\ \A i \in Items : synth[i] \in {"none", "inflight"},
                                        !.quiet = FALSE]
               /\ UNCHANGED <<audioQueue, isPlaying, phase, revoked, speakStarts,
                              speakEnds, playErrors, startLog>>

\* the synthesis of call k succeeded: audio-manager.ts:174-185
SynthOk ==
  /\ UNCHANGED nonPlay
  /\ \E k \in Items :
       /\ synth[k] = "inflight"
       /\ synth' = [synth EXCEPT ![k] = "ok"]
       /\ SetPB(Enqueue(PB, k))
       /\ UNCHANGED <<calls, hist>>

\* the synthesis of call k failed (non-ok response or network error):
\* audio-manager.ts:174-177, 186-189
SynthFail ==
  /\ UNCHANGED nonPlay
  /\ \E k \in Items :
       /\ synth[k] = "inflight"
       /\ synth' = [synth EXCEPT ![k] = "failed"]
       /\ SetPB(SpeakCatch(PB))
       /\ hist' = [hist EXCEPT !.failed = TRUE]
       /\ UNCHANGED calls

\* the browser resolves the promise of audio.play(): playback runs
PlayResolves ==
  /\ UNCHANGED nonPlay
  /\ \E a \in Items :
       /\ phase[a] = "starting"
       /\ phase' = [phase EXCEPT ![a] = "playing"]
       /\ UNCHANGED <<audioQueue, isPlaying, calls, synth, revoked, speakStarts,
                      speakEnds, playErrors, startLog, hist>>

\* the "ended" event of element a: audio-manager.ts:208
Ended ==
  /\ UNCHANGED nonPlay
  /\ \E a \in Items :
       /\ phase[a] = "playing"
       /\ SetPB(OnEnded([PB EXCEPT !.phase[a] = "ended"], a))
       /\ UNCHANGED <<calls, synth, hist>>

\* play() is rejected and no error event is fired (NotAllowedError, the
\* autoplay policy): audio-manager.ts:216-220
PlayRejected ==
  /\ UNCHANGED nonPlay
  /\ \E a \in Items :
       /\ phase[a] = "starting"
       /\ SetPB(OnPlayRejected([PB EXCEPT !.phase[a] = "blocked"], a))
       /\ hist' = [hist EXCEPT !.failed = TRUE]
       /\ UNCHANGED <<calls, synth>>

\* the source cannot be loaded while play() is pending: the browser fires
\* the "error" event and then rejects the promise of play() (NotSupportedError);
\* the listener runs, then the rejection handler: audio-manager.ts:209-220
LoadFails ==
  /\ UNCHANGED nonPlay
  /\ \E a \in Items :
       /\ phase[a] = "starting"
       /\ SetPB(OnPlayRejected(OnErrorEvent([PB EXCEPT !.phase[a] = "failed"], a), a))
       /\ hist' = [hist EXCEPT !.failed = TRUE]
       /\ UNCHANGED <<calls, synth>>

\* a decode error while the element plays: the "error" event alone
DecodeError ==
  /\ UNCHANGED nonPlay
  /\ \E a \in Items :
       /\ phase[a] = "playing"
       /\ SetPB(OnErrorEvent([PB EXCEPT !.phase[a] = "failed"], a))
       /\ hist' = [hist EXCEPT !.failed = TRUE]
       /\ UNCHANGED <<calls, synth>>

\* the rejection (AbortError) of a play() interrupted by pause() is delivered
AbortRejected ==
  /\ UNCHANGED nonPlay
  /\ \E a \in Items :
       /\ phase[a] = "aborting"
       /\ SetPB(OnPlayRejected([PB EXCEPT !.phase[a] = "paused"], a))
       /\ UNCHANGED <<calls, synth, hist>>

\* stopSpeaking(), audio-manager.ts:223-234
StopSpeaking ==
  /\ UNCHANGED nonPlay
  /\ SetPB(StopSpeakingFn(PB))
  /\ hist' = [hist EXCEPT !.stopped = TRUE, !.quiet = TRUE]
  /\ UNCHANGED <<calls, synth>>

\* ------------------------------------------------ recording: pure helpers
\* The capture and recording part of the manager as one record.
RS == [stream |-> stream, audioContext |-> audioContext, analyser |-> analyser,
       microphone |-> microphone, dataArray |-> dataArray,
       animationFrame |-> animationFrame, mediaRecorder |-> mediaRecorder,
       audioChunks |-> audioChunks, acquiring |-> acquiring,
       pendingStops |-> pendingStops, inflight |-> inflight,
       rafPending |-> rafPending, env |-> env, signals |-> signals]

SetRS(r) ==
  /\ stream' = r.stream
  /\ audioContext' = r.audioContext
  /\ analyser' = r.analyser
  /\ microphone' = r.microphone
  /\ dataArray' = r.dataArray
  /\ animationFrame' = r.animationFrame
  /\ mediaRecorder' = r.mediaRecorder
  /\ audioChunks' = r.audioChunks
  /\ acquiring' = r.acquiring
  /\ pendingStops' = r.pendingStops
  /\ inflight' = r.inflight
  /\ rafPending' = r.rafPending
  /\ env' = r.env
  /\ signals' = r.signals

\* options.onSpeechStart(), onSpeechEnd(), onSpeechResult(), onError?.()
OnSpeechStart(r)  == [r EXCEPT !.signals.speechStart = @ + 1, !.signals.last = "start"]
OnSpeechEnd(r)    == [r EXCEPT !.signals.speechEnd = @ + 1, !.signals.last = "end"]
OnSpeechResult(r) == [r EXCEPT !.signals.speechResult = @ + 1]
OnRecError(r)     == [r EXCEPT !.signals.error = @ + 1]

\* the guard of startAudioVisualization and of its update closure,
\* audio-manager.ts:141, 143 (a context this manager holds is never closed:
\* cleanup() drops the reference when it closes it)
CanSample(r) == r.analyser /\ r.dataArray /\ r.audioContext

\* cancelAnimationFrame(this.animationFrame)
CancelAnimationFrame(r) == [r EXCEPT !.rafPending = @ \ {r.animationFrame}]

\* update(), the closure of startAudioVisualization, run for sampling loop l:
\* audio-manager.ts:142-151
Update(r, l) ==
  IF ~CanSample(r)
  THEN IF r.animationFrame # 0 THEN CancelAnimationFrame(r) ELSE r
  ELSE [r EXCEPT !.signals.level = TRUE,
                 !.animationFrame = l,
                 !.rafPending = @ \cup {l}]

\* startAudioVisualization(), audio-manager.ts:140-153: a new sampling loop
StartAudioVisualization(r) ==
  IF ~CanSample(r) THEN r
  ELSE Update([r EXCEPT !.env.loops = @ + 1], r.env.loops + 1)

\* stopAudioVisualization(), audio-manager.ts:155-160
StopAudioVisualization(r) ==
  IF r.animationFrame # 0
  THEN [CancelAnimationFrame(r) EXCEPT !.animationFrame = 0]
  ELSE r

\* the catch block of initializeMedia, audio-manager.ts:45-49; the failures
\* are counted in signals.acquireFailed
InitializeMediaCatch(r) ==
  [OnRecError(r) EXCEPT !.signals.acquireFailed = @ + 1]

\* The places where the body of initializeMedia can throw after getUserMedia
\* has resolved: nowhere, in `new AudioContext()`, in createMediaStreamSource.
FailPoints == {"none", "AudioContext", "createMediaStreamSource"}

\* initializeMedia() from the resolution of getUserMedia on,
\* audio-manager.ts:35-49.  The result is <<state, returned value>>.
InitializeMediaTail(r, failAt) ==
  LET r1 == [r EXCEPT !.stream = TRUE, !.env.streams = @ + 1]
      r2 == [r1 EXCEPT !.audioContext = TRUE, !.env.contexts = @ + 1,
                       !.analyser = TRUE]
      r3 == [r2 EXCEPT !.microphone = TRUE, !.dataArray = TRUE]
  IN  CASE failAt = "AudioContext" -> <<InitializeMediaCatch(r1), FALSE>>
        [] failAt = "createMediaStreamSource" -> <<InitializeMediaCatch(r2), FALSE>>
        [] OTHER -> <<StartAudioVisualization(r3), TRUE>>

\* The places where the try block of startListening can throw:
\* nowhere, in `new MediaRecorder(...)`, in mediaRecorder.start().
RecorderFailPoints == {"none", "MediaRecorder", "start"}

\* a variant of startListening() without the test for an open recording
StartListeningTailUnguarded(r, mediaInitialized, failAt) ==
  IF ~mediaInitialized \/ ~r.stream
  THEN OnSpeechEnd(r)
  ELSE CASE failAt = "MediaRecorder" -> OnSpeechEnd(OnRecError(r))
         [] failAt = "start" ->
              OnSpeechEnd(OnRecError(
                [r EXCEPT !.mediaRecorder = "inactive", !.audioChunks = 0]))
         [] OTHER ->
              OnSpeechStart(
                [r EXCEPT !.mediaRecorder = "recording", !.audioChunks = 0])

\* startListening() after its await of initializeMedia(), audio-manager.ts:54-130
StartListeningTail(r, mediaInitialized, failAt) ==
  IF ~mediaInitialized \/ ~r.stream
  THEN OnSpeechEnd(r)
  ELSE IF r.mediaRecorder = "recording"
  THEN r
  ELSE CASE failAt = "MediaRecorder" -> OnSpeechEnd(OnRecError(r))
         [] failAt = "start" ->
              OnSpeechEnd(OnRecError(
                [r EXCEPT !.mediaRecorder = "inactive", !.audioChunks = 0]))
         [] OTHER ->
              OnSpeechStart(
                [r EXCEPT !.mediaRecorder = "recording", !.audioChunks = 0])

\* stopListening(), audio-manager.ts:132-138.  MediaRecorder.stop() makes the
\* recorder inactive at once and queues its dataavailable and stop events.
StopListeningFn(r) ==
  OnSpeechEnd(
    IF r.mediaRecorder = "recording"
    THEN [r EXCEPT !.mediaRecorder = "inactive", !.pendingStops = @ + 1]
    ELSE r)

\* ondataavailable, audio-manager.ts:75-79: `size` is event.data.size
OnDataAvailable(r, size) ==
  IF size > 0 THEN [r EXCEPT !.audioChunks = @ + 1] ELSE r

\* a variant of onstop that sends whatever the buffer holds
OnStopAlwaysSends(r) ==
  [r EXCEPT !.audioChunks = 0, !.inflight = @ + 1, !.signals.sttRequest = @ + 1]

\* onstop up to its await of fetch, audio-manager.ts:81-102.  The blob's size
\* is zero exactly when no chunk is held, every chunk held being non-empty.
OnStop(r) ==
  LET audioBlobSize == r.audioChunks
      r1 == [r EXCEPT !.audioChunks = 0]
  IN  IF audioBlobSize = 0
      THEN OnRecError(OnSpeechEnd(r1))
      ELSE [r1 EXCEPT !.inflight = @ + 1, !.signals.sttRequest = @ + 1]

\* What the transcription endpoint answers: a result, a non-ok status, an ok
\* status with another shape, or nothing (network error).
SttOutcomes == {"ok", "status", "shape", "network"}

\* a dispatch whose failure paths skip the ended signal
OnSttResponseEndOnSuccess(r, outcome) ==
  LET r1 == [r EXCEPT !.inflight = @ - 1]
  IN  IF outcome = "ok" THEN OnSpeechEnd(OnSpeechResult(r1)) ELSE OnRecError(r1)

\* onstop from the resolution of fetch on, audio-manager.ts:104-120
OnSttResponse(r, outcome) ==
  LET r1 == [r EXCEPT !.inflight = @ - 1]
  IN  OnSpeechEnd(IF outcome = "ok" THEN OnSpeechResult(r1) ELSE OnRecError(r1))

\* cleanup() without its stopSpeaking() call, audio-manager.ts:236-257.  A
\* stream whose tracks are stopped and a context that is closed are counted.
CleanupFn(r) ==
  LET r1 == StopAudioVisualization(StopListeningFn(r))
      r2 == IF r1.stream
            THEN [r1 EXCEPT !.stream = FALSE, !.env.stopped = @ + 1]
            ELSE r1
      r3 == [r2 EXCEPT !.microphone = FALSE, !.analyser = FALSE]
  IN  IF r3.audioContext
      THEN [r3 EXCEPT !.audioContext = FALSE, !.env.closed = @ + 1]
      ELSE r3

\* ----------------------------------------------------- recording: actions
InitRec ==
  /\ stream = FALSE
  /\ audioContext = FALSE
  /\ analyser = FALSE
  /\ microphone = FALSE
  /\ dataArray = FALSE
  /\ animationFrame = 0
  /\ mediaRecorder = "null"
  /\ audioChunks = 0
  /\ acquiring = 0
  /\ pendingStops = 0
  /\ inflight = 0
  /\ rafPending = {}
  /\ env = [streams |-> 0, contexts |-> 0, loops |-> 0,
            stopped |-> 0, closed |-> 0]
  /\ listens = 0
  /\ stops = 0
  /\ cleanups = 0
  /\ signals = [speechStart |-> 0, speechEnd |-> 0, speechResult |-> 0,
                error |-> 0, sttRequest |-> 0, level |-> FALSE,
                stopsOpen |-> 0, endsOfStops |-> 0, emptyStops |-> 0,
                acquireFailed |-> 0, cleanedAt |-> 0,
                cleanedOpen |-> FALSE, last |-> "none"]

\* startListening() is called, audio-manager.ts:52-53 and 32-35: with a stream
\* held initializeMedia returns true and the body runs on; without one the
\* call waits for getUserMedia.
StartListening ==
  /\ UNCHANGED nonRec
  /\ listens < MaxListen
  /\ listens' = listens + 1
  /\ UNCHANGED <<stops, cleanups>>
  /\ IF stream
     THEN \E failAt \in RecorderFailPoints :
            SetRS(StartListeningTail(RS, TRUE, failAt))
     ELSE SetRS([RS EXCEPT !.acquiring = @ + 1])

\* getUserMedia resolves for a waiting startListening(): audio-manager.ts:35-44,
\* then 54-130
GetUserMediaOk ==
  /\ UNCHANGED nonRec
  /\ acquiring > 0
  /\ \E failAt \in FailPoints, recFailAt \in RecorderFailPoints :
       LET got == InitializeMediaTail([RS EXCEPT !.acquiring = @ - 1], failAt)
       IN  SetRS(StartListeningTail(got[1], got[2], recFailAt))
  /\ UNCHANGED <<listens, stops, cleanups>>

\* getUserMedia rejects (permission denied, no device): audio-manager.ts:45-49,
\* then 54-57
GetUserMediaFail ==
  /\ UNCHANGED nonRec
  /\ acquiring > 0
  /\ SetRS(StartListeningTail(InitializeMediaCatch([RS EXCEPT !.acquiring = @ - 1]),
                              FALSE, "none"))
  /\ UNCHANGED <<listens, stops, cleanups>>

\* stopListening(), audio-manager.ts:132-138
StopListening ==
  /\ UNCHANGED nonRec
  /\ stops < MaxStop
  /\ stops' = stops + 1
  /\ LET open == mediaRecorder = "recording"
         r == StopListeningFn(RS)
     IN  SetRS(IF open
               THEN [r EXCEPT !.signals.stopsOpen = @ + 1,
                              !.signals.endsOfStops = @ + 1]
               ELSE r)
  /\ UNCHANGED <<listens, cleanups>>

\* the dataavailable and stop events of a stopped recorder are delivered:
\* audio-manager.ts:75-79, then 81-102
RecorderStopped ==
  /\ UNCHANGED nonRec
  /\ pendingStops > 0
  /\ \E size \in {0, 1} :
       LET r0 == [RS EXCEPT !.pendingStops = @ - 1]
           got == OnDataAvailable(r0, size)
           r1 == [OnStop(got) EXCEPT !.signals.emptyStops =
                    @ + (IF got.audioChunks = 0 THEN 1 ELSE 0)]
       IN  SetRS(IF r1.inflight = r0.inflight
                 THEN [r1 EXCEPT !.signals.endsOfStops = @ + 1]
                 ELSE r1)
  /\ UNCHANGED <<listens, stops, cleanups>>

\* the transcription endpoint answers a request: audio-manager.ts:104-120
SttResponse ==
  /\ UNCHANGED nonRec
  /\ inflight > 0
  /\ \E outcome \in SttOutcomes :
       SetRS([OnSttResponse(RS, outcome) EXCEPT !.signals.endsOfStops = @ + 1])
  /\ UNCHANGED <<listens, stops, cleanups>>

\* a requested animation frame of sampling loop l fires: audio-manager.ts:142-151
AnimationFrame ==
  /\ UNCHANGED nonRec
  /\ \E l \in rafPending :
       /\ SetRS(Update([RS EXCEPT !.rafPending = @ \ {l}], l))
       /\ UNCHANGED <<listens, stops, cleanups>>

\* cleanup(), audio-manager.ts:236-257; signals.cleanedAt keeps the number
\* of startListening() calls made before it, signals.cleanedOpen whether it
\* found a recording open and no acquisition pending
Cleanup ==
  /\ UNCHANGED <<cvars, hvars>>
  /\ cleanups < MaxCleanup
  /\ cleanups' = cleanups + 1
  /\ LET open == mediaRecorder = "recording"
         r == CleanupFn(RS)
         r1 == [r EXCEPT !.signals.cleanedAt = listens,
                         !.signals.cleanedOpen = open /\ acquiring = 0]
     IN  SetRS(IF open
               THEN [r1 EXCEPT !.signals.stopsOpen = @ + 1,
                               !.signals.endsOfStops = @ + 1]
               ELSE r1)
  /\ SetPB(StopSpeakingFn(PB))
  /\ hist' = [hist EXCEPT !.stopped = @ \/ audioQueue # <<>>, !.quiet = TRUE]
  /\ UNCHANGED <<calls, synth, listens, stops>>

\* ----------------------------------------------------- chat: the values
\* JavaScript's undefined; a string is a sequence of characters, "" is <<>>
Undef == "undefined"

\* the truthiness of a value that is undefined or a string
Truthy(v) == v # Undef /\ v # <<>>

Turns == 1..MaxTurns

\* the text of the apology message, use-langchain-chat.ts:211-212
Apology == <<"S", "o", "r", "r", "y">>

\* the tool-call lists and tool responses the server sends
ToolCalls1 == <<[id |-> "1", name |-> "search"]>>
ToolCalls2 == <<[id |-> "2", name |-> "calc"], [id |-> "3", name |-> "search"]>>

\* a parsed StreamEvent, use-langchain-chat.ts:20-37
Event(type, data, tool_calls, tool_call_id, tool_name, content) ==
  [type |-> type, data |-> data, tool_calls |-> tool_calls,
   tool_call_id |-> tool_call_id, tool_name |-> tool_name, content |-> content]

\* The payloads the server sends, as JSON texts.  A text is written with one
\* character for the event type and the characters of its one string field:
\*   {Ca}   {"type":"content","data":"a"}            {C}  no data
\*   {Q1}   {"type":"ai_tool_request","tool_calls":ToolCalls1}  {Q} none
\*   {Q0}   an ai_tool_request with tool_calls []
\*   {R1}   {"type":"tool_response","tool_call_id":"1","tool_name":"search",
\*           "content":"r"}                 {R}  a tool_response without content
\*   {Fx}   {"type":"final_ai_response","content":"x"}   {F}  no content
\*   {E}    {"type":"stream_end"}       {X}  a type the switch does not know
\* JSON.parse, use-langchain-chat.ts:103: the event, or SyntaxError for a text
\* that is not one of these.
SyntaxError == Event("SyntaxError", Undef, Undef, Undef, Undef, Undef)

JsonParse(text) ==
  IF Len(text) < 3 \/ text[1] # "{" \/ text[Len(text)] # "}"
  THEN SyntaxError
  ELSE LET body == SubSeq(text, 2, Len(text) - 1)
           arg == Tail(body)
       IN  CASE body[1] = "C" /\ \A i \in 1..Len(arg) : arg[i] \in {"a", "b", "e"} ->
                  Event("content", IF arg = <<>> THEN Undef ELSE arg,
                        Undef, Undef, Undef, Undef)
             [] body = <<"Q">> ->
                  Event("ai_tool_request", Undef, Undef, Undef, Undef, Undef)
             [] body = <<"Q", "0">> ->
                  Event("ai_tool_request", Undef, <<>>, Undef, Undef, Undef)
             [] body = <<"Q", "1">> ->
                  Event("ai_tool_request", Undef, ToolCalls1, Undef, Undef, Undef)
             [] body = <<"Q", "2">> ->
                  Event("ai_tool_request", Undef, ToolCalls2, Undef, Undef, Undef)
             [] body = <<"R">> ->
                  Event("tool_response", Undef, Undef, <<"1">>, <<"search">>, Undef)
             [] body = <<"R", "1">> ->
                  Event("tool_response", Undef, Undef, <<"1">>, <<"search">>, <<"r">>)
             [] body = <<"R", "2">> ->
                  Event("tool_response", Undef, Undef, <<"2">>, <<"calc">>, <<"s">>)
             [] body[1] = "F" /\ \A i \in 1..Len(arg) : arg[i] \in {"x", "y"} ->
                  Event("final_ai_response", Undef, Undef, Undef, Undef,
                        IF arg = <<>> THEN Undef ELSE arg)
             [] body = <<"E">> ->
                  Event("stream_end", Undef, Undef, Undef, Undef, Undef)
             [] body = <<"X">> ->
                  Event("ping", Undef, Undef, Undef, Undef, Undef)
             [] OTHER -> SyntaxError

\* ------------------------------------------------------ chat: the decoder
LF == "\n"

\* the marker of a payload line, 'data: ' (use-langchain-chat.ts:101)
Marker == <<"d", "a", "t", "a", ":", " ">>

\* UTF-8: "e" stands for the one character of the model that takes two bytes
\* (an e with an accent); Lead and Cont are its bytes, "FFFD" is U+FFFD
Lead == "e/1"
Cont == "e/2"

RECURSIVE Utf8Encode(_)
\* TextEncoder: the bytes of a string
Utf8Encode(str) ==
  IF str = <<>> THEN <<>>
  ELSE (IF Head(str) = "e" THEN <<Lead, Cont>> ELSE <<Head(str)>>)
       \o Utf8Encode(Tail(str))

RECURSIVE Utf8Decode(_, _)
\* decoder.decode(value, { stream: true }), use-langchain-chat.ts:94: the
\* characters of the bytes `value` after the held bytes `h`, as
\* <<characters, bytes held>>.  A lead byte waits for its continuation; a byte
\* that cannot continue or start a character gives U+FFFD.
Utf8Decode(h, value) ==
  IF value = <<>> THEN <<(<<>>), h>>
  ELSE LET b == Head(value)
           out == CASE h = <<Lead>> /\ b = Cont -> <<(<<"e">>), (<<>>)>>
                    [] h = <<Lead>> /\ b = Lead -> <<(<<"FFFD">>), (<<Lead>>)>>
                    [] h = <<Lead>>             -> <<(<<"FFFD", b>>), (<<>>)>>
                    [] b = Lead                 -> <<(<<>>), (<<Lead>>)>>
                    [] b = Cont                 -> <<(<<"FFFD">>), (<<>>)>>
                    [] OTHER                    -> <<(<<b>>), (<<>>)>>
           rest == Utf8Decode(out[2], Tail(value))
       IN  <<out[1] \o rest[1], rest[2]>>

RECURSIVE Split(_, _)
\* String.prototype.split('\n\n') of the string cur \o str: the pieces between
\* the delimiters, found from the left
Split(cur, str) ==
  IF Len(str) >= 2 /\ str[1] = LF /\ str[2] = LF
  THEN <<cur>> \o Split(<<>>, SubSeq(str, 3, Len(str)))
  ELSE IF str = <<>> THEN <<cur>>
  ELSE Split(Append(cur, Head(str)), Tail(str))

\* line.startsWith('data: ')
StartsWith(line, prefix) ==
  Len(line) >= Len(prefix) /\ SubSeq(line, 1, Len(prefix)) = prefix

\* line.slice(6)
Slice(line, n) == SubSeq(line, n + 1, Len(line))

\* ---------------------------------------------------- chat: the transcript
\* A message of the state is an object [role, content, toolCalls,
\* toolResponses].  Two objects are shared with the code that mutates them, and
\* are in the state by reference:
\*   ref = t > 0    the message is the currentAssistantMessage object of call t
\*                  (its other fields are not read)
\*   trRef = t > 0  the message's toolResponses is the toolResponses array of
\*                  that object, which push() mutates (the field is not read)
Msg(role, content, toolCalls, toolResponses) ==
  [role |-> role, content |-> content, toolCalls |-> toolCalls,
   toolResponses |-> toolResponses, ref |-> 0, trRef |-> 0]

Ref(t) == [Msg("assistant", <<>>, <<>>, <<>>) EXCEPT !.ref = t]

UserMessage(text) == Msg("user", text, Undef, Undef)

\* the fresh currentAssistantMessage, use-langchain-chat.ts:81-86
NewAssistantMessage ==
  [role |-> "assistant", content |-> <<>>, toolCalls |-> <<>>, toolResponses |-> <<>>]

\* { ...m }: the own fields of message m, copied, `A` being the accumulators.
\* Of an accumulator the strings and the tool-call list are copied as they
\* are now; its toolResponses array stays the same array.
Spread(m, A) ==
  IF m.ref # 0
  THEN [Msg("assistant", A[m.ref].content, A[m.ref].toolCalls, <<>>)
          EXCEPT !.trRef = m.ref]
  ELSE m

\* what a message reads as, given the accumulators
Deref(m, A) ==
  IF m.ref # 0 THEN A[m.ref]
  ELSE [role |-> m.role, content |-> m.content, toolCalls |-> m.toolCalls,
        toolResponses |-> IF m.trRef # 0 THEN A[m.trRef].toolResponses
                          ELSE m.toolResponses]

\* what the transcript reads as
View(msgs, A) == [i \in 1..Len(msgs) |-> Deref(msgs[i], A)]

\* The updater functions passed to setMessages, each run on `prev` when React
\* processes its queue; `A` is what the accumulators hold at that time.
\*   use-langchain-chat.ts:51
AppendUser(prev, text) == Append(prev, UserMessage(text))

\* a variant of the ai_tool_request updater that always adds a placeholder
UpsertToolCallsAlwaysPush(prev, A, t) ==
  Append(prev, Msg("assistant", <<>>, A[t].toolCalls, <<>>))

\*   use-langchain-chat.ts:117-138 (ai_tool_request), for the call t
UpsertToolCalls(prev, A, t) ==
  LET lastMessageIndex == Len(prev)
  IN  IF lastMessageIndex >= 1 /\ prev[lastMessageIndex].role = "assistant"
      THEN [prev EXCEPT ![lastMessageIndex] =
              [Spread(@, A) EXCEPT !.content = <<>>, !.toolCalls = A[t].toolCalls]]
      ELSE Append(prev, Msg("assistant", <<>>, A[t].toolCalls, <<>>))

\*   use-langchain-chat.ts:158-168 (tool_response), for the call t
UpdateToolResponses(prev, A, t) ==
  LET lastMessageIndex == Len(prev)
  IN  IF lastMessageIndex >= 1 /\ prev[lastMessageIndex].role = "assistant"
      THEN [prev EXCEPT ![lastMessageIndex] =
              [Spread(@, A) EXCEPT !.toolResponses = A[t].toolResponses,
                                   !.trRef = 0]]
      ELSE prev

\* a variant of the final_ai_response updater that never replaces
ReplaceOrPushAlwaysPush(prev, t) == Append(prev, Ref(t))

\*   use-langchain-chat.ts:176-187 (final_ai_response), for the call t
ReplaceOrPush(prev, t) ==
  IF Len(prev) >= 1 /\ prev[Len(prev)].role = "assistant"
  THEN [prev EXCEPT ![Len(prev)] = Ref(t)]
  ELSE Append(prev, Ref(t))

\*   use-langchain-chat.ts:207-214
AppendApology(prev) ==
  Append(prev, Msg("assistant", Apology, Undef, Undef))

\* one queued updater u = [kind, t, text] run on prev
RunUpdater(prev, A, u) ==
  CASE u.kind = "user"     -> AppendUser(prev, u.text)
    [] u.kind = "toolReq"  -> UpsertToolCalls(prev, A, u.t)
    [] u.kind = "toolResp" -> UpdateToolResponses(prev, A, u.t)
    [] u.kind = "final"    -> ReplaceOrPush(prev, u.t)
    [] u.kind = "apology"  -> AppendApology(prev)
    [] u.kind = "clear"    -> <<>>
    [] OTHER               -> prev

RECURSIVE RunQueue(_, _, _)
\* React processing the queue of updaters, in order
RunQueue(prev, A, queue) ==
  IF queue = <<>> THEN prev
  ELSE RunQueue(RunUpdater(prev, A, Head(queue)), A, Tail(queue))

Updater(kind, t, text) == [kind |-> kind, t |-> t, text |-> text]

\* The chat state as one record, so that the steps of a handler compose.
CS == [messages |-> messages, pending |-> pending, isLoading |-> isLoading,
       isStreaming |-> isStreaming, streamingContent |-> streamingContent,
       pc |-> pc, turn |-> turn, acc |-> acc, buffer |-> buffer, held |-> held,
       net |-> net, chist |-> chist]

SetCS(c) ==
  /\ messages' = c.messages
  /\ pending' = c.pending
  /\ isLoading' = c.isLoading
  /\ isStreaming' = c.isStreaming
  /\ streamingContent' = c.streamingContent
  /\ pc' = c.pc
  /\ turn' = c.turn
  /\ acc' = c.acc
  /\ buffer' = c.buffer
  /\ held' = c.held
  /\ net' = c.net
  /\ chist' = c.chist

\* setMessages(updater): React queues the updater and runs it, after those
\* queued before it, when it next renders the component.
SetMessages(c, u) == [c EXCEPT !.pending = Append(@, u)]

\* the render of the component: the queued updaters run
RenderFn(c) ==
  [c EXCEPT !.messages = RunQueue(@, c.acc, c.pending), !.pending = <<>>]

\* the transcript the next render shows
Transcript(c) == View(RunQueue(c.messages, c.acc, c.pending), c.acc)

\* a variant of the tool_response test that takes every event
HasResponseFieldsAny(eventData) == TRUE

\* the test of the tool_response case, use-langchain-chat.ts:143-147
HasResponseFields(eventData) ==
  /\ Truthy(eventData.tool_call_id)
  /\ Truthy(eventData.tool_name)
  /\ Truthy(eventData.content)

\* the body of the switch for one parsed event, use-langchain-chat.ts:105-195
ApplyEvent(c, eventData) ==
  LET t == c.turn
  IN  CASE eventData.type = "content" ->
             IF Truthy(eventData.data)
             THEN LET c1 == [c EXCEPT !.acc[t].content = @ \o eventData.data]
                  IN  [c1 EXCEPT !.streamingContent = c1.acc[t].content]
             ELSE c
        [] eventData.type = "ai_tool_request" ->
             IF eventData.tool_calls # Undef
             THEN SetMessages([c EXCEPT !.acc[t].toolCalls = eventData.tool_calls],
                              Updater("toolReq", t, <<>>))
             ELSE c
        [] eventData.type = "tool_response" ->
             IF HasResponseFields(eventData)
             THEN SetMessages(
                    [c EXCEPT !.acc[t].toolResponses =
                       Append(@, [toolCallId |-> eventData.tool_call_id,
                                  toolName |-> eventData.tool_name,
                                  content |-> eventData.content])],
                    Updater("toolResp", t, <<>>))
             ELSE c
        [] eventData.type = "final_ai_response" ->
             IF Truthy(eventData.content)
             THEN SetMessages([c EXCEPT !.acc[t].content = eventData.content,
                                        !.streamingContent = <<>>],
                              Updater("final", t, <<>>))
             ELSE c
        [] eventData.type = "stream_end" ->
             [c EXCEPT !.isStreaming = FALSE, !.streamingContent = <<>>]
        [] OTHER -> c

\* a variant of the frame handler that drops the partial text on a parse error
ProcessLineResetOnError(c, line) ==
  IF StartsWith(line, Marker)
  THEN LET eventData == JsonParse(Slice(line, 6))
       IN  IF eventData = SyntaxError
           THEN [c EXCEPT !.chist.skipped = @ + 1, !.streamingContent = <<>>]
           ELSE ApplyEvent([c EXCEPT !.chist.log = Append(@, eventData)], eventData)
  ELSE c

\* the body of the loop over the frames for one frame, use-langchain-chat.ts:
\* 100-199.  The parsed events are logged in c.chist.log, the parse errors
\* caught at 196-198 are counted in c.chist.skipped.
ProcessLine(c, line) ==
  IF StartsWith(line, Marker)
  THEN LET eventData == JsonParse(Slice(line, 6))
       IN  IF eventData = SyntaxError
           THEN [c EXCEPT !.chist.skipped = @ + 1]
           ELSE ApplyEvent([c EXCEPT !.chist.log = Append(@, eventData)], eventData)
  ELSE c

RECURSIVE ProcessLines(_, _)
ProcessLines(c, lines) ==
  IF lines = <<>> THEN c
  ELSE ProcessLines(ProcessLine(c, Head(lines)), Tail(lines))

\* one round of the read loop for a chunk `value`, use-langchain-chat.ts:90-200
ReadChunkFn(c, value) ==
  LET decoded == Utf8Decode(c.held, value)
      lines == Split(<<>>, c.buffer \o decoded[1])
      c1 == [c EXCEPT !.held = decoded[2],
                      !.buffer = lines[Len(lines)],
                      !.chist.read = @ \o value]
  IN  ProcessLines(c1, SubSeq(lines, 1, Len(lines) - 1))

\* ---------------------------------------------------------- chat: actions
\* the texts sendMessage() is called with: one blank, one not
ChatTexts == {<<" ">>, <<"h", "i">>}

\* text.trim() being empty (use-langchain-chat.ts:47)
IsBlankText(text) == \A i \in 1..Len(text) : text[i] = " "

\* a frame: its text, and the blank line that ends it
Frame(text) == text \o <<LF, LF>>

\* The frames the server sends in SpecChat: a payload line for each payload of
\* the list, and a payload line whose JSON text is cut short.
Payloads ==
  { <<"{", "C", "a", "}">>, <<"{", "C", "}">>,
    <<"{", "Q", "1", "}">>, <<"{", "Q", "2", "}">>, <<"{", "Q", "}">>,
    <<"{", "R", "1", "}">>, <<"{", "R", "2", "}">>, <<"{", "R", "}">>,
    <<"{", "F", "x", "}">>, <<"{", "F", "}">>,
    <<"{", "E", "}">>,
    <<"{", "C", "a">> }

ServerFrames == {Frame(Marker \o p) : p \in Payloads}

\* the chunks of SpecChat: one to MaxChunkFrames whole frames
Chunks(n) ==
  IF n = 1 THEN ServerFrames
  ELSE ServerFrames \cup {f \o g : f \in ServerFrames, g \in ServerFrames}

\* The byte streams of SpecDecode: up to MaxNetFrames pieces, each a frame with
\* a payload (one holding a two-byte character), a frame cut short in its
\* JSON text, or a lone line feed.
NetPieces ==
  { Frame(Marker \o <<"{", "C", "e", "}">>),
    Frame(Marker \o <<"{", "Q", "1", "}">>),
    Frame(Marker \o <<"{", "R", "1", "}">>),
    Frame(Marker \o <<"{", "F", "x", "}">>),
    Frame(Marker \o <<"{", "C", "e">>),
    <<LF>> }

RECURSIVE NetStreams(_)
NetStreams(n) ==
  IF n = 0 THEN {<<>>}
  ELSE NetStreams(n - 1) \cup {Utf8Encode(p) \o q : p \in NetPieces, q \in NetStreams(n - 1)}

InitChat ==
  /\ messages = <<>>
  /\ pending = <<>>
  /\ isLoading = FALSE
  /\ isStreaming = FALSE
  /\ streamingContent = <<>>
  /\ pc = "idle"
  /\ turn = 0
  /\ acc = [t \in Turns |-> NewAssistantMessage]
  /\ buffer = <<>>
  /\ held = <<>>
  /\ chist = [log |-> <<>>, read |-> <<>>, frames |-> 0, skipped |-> 0,
              startMessages |-> <<>>, startPending |-> <<>>]
  /\ input = <<>>
  /\ reset = [pc |-> "idle", n |-> 0, ok |-> FALSE]
  /\ other = [pc |-> "idle", turn |-> 0, buffer |-> <<>>, held |-> <<>>]

\* the finally block of sendMessage, use-langchain-chat.ts:215-219
Finally(c) ==
  [c EXCEPT !.isLoading = FALSE, !.isStreaming = FALSE,
            !.streamingContent = <<>>, !.pc = "idle"]

\* a catch block that appends nothing
CatchSilent(c) == c

\* the catch block of sendMessage, use-langchain-chat.ts:205-214
Catch(c) == SetMessages(c, Updater("apology", c.turn, <<>>))

\* sendMessage(text) up to its await of fetch, use-langchain-chat.ts:46-64
SendMessage ==
  /\ UNCHANGED nonChat
  /\ pc = "idle"
  /\ turn < MaxTurns
  /\ \E text \in ChatTexts :
       IF IsBlankText(text)
       THEN UNCHANGED cvars
       ELSE LET c0 == [CS EXCEPT !.turn = @ + 1]
                c1 == SetMessages(c0, Updater("user", c0.turn, text))
            IN  SetCS([c1 EXCEPT !.isLoading = TRUE, !.isStreaming = FALSE,
                                 !.streamingContent = <<>>, !.pc = "fetching"])

\* fetch settles: use-langchain-chat.ts:66-86 with a body, else 66-72 and the
\* catch and finally blocks
Response ==
  /\ UNCHANGED nonChat
  /\ pc = "fetching"
  /\ \E outcome \in {"ok", "status", "nobody", "network"} :
       IF outcome = "ok"
       THEN SetCS([CS EXCEPT !.isLoading = FALSE, !.isStreaming = TRUE,
                             !.buffer = <<>>, !.held = <<>>,
                             !.acc[turn] = NewAssistantMessage,
                             !.pc = "reading",
                             !.chist.log = <<>>, !.chist.read = <<>>,
                             !.chist.skipped = 0,
                             !.chist.startMessages = messages,
                             !.chist.startPending = pending])
       ELSE SetCS(Finally(Catch(CS)))

\* reader.read() gives a chunk of whole frames: use-langchain-chat.ts:90-200
ReadChunk ==
  /\ UNCHANGED nonChat
  /\ pc = "reading"
  /\ net = <<>>
  /\ chist.frames < MaxFrames
  /\ \E value \in Chunks(IF chist.frames + 1 < MaxFrames THEN MaxChunkFrames ELSE 1) :
       LET c == ReadChunkFn(CS, Utf8Encode(value))
       IN  SetCS([c EXCEPT !.chist.frames = @ + (IF Len(value) > 12 THEN 2 ELSE 1)])

\* reader.read() gives the next bytes of the body, cut anywhere:
\* use-langchain-chat.ts:90-200
ReadChunkNet ==
  /\ UNCHANGED nonChat
  /\ pc = "reading"
  /\ net # <<>>
  /\ \E k \in 1..Len(net) :
       SetCS([ReadChunkFn(CS, SubSeq(net, 1, k))
                EXCEPT !.net = SubSeq(net, k + 1, Len(net))])

\* reader.read() reports the end of the body: use-langchain-chat.ts:92, 202-204,
\* 215-219
ReadDone ==
  /\ UNCHANGED nonChat
  /\ pc = "reading"
  /\ net = <<>>
  /\ SetCS(Finally(CS))

\* reader.read() rejects: use-langchain-chat.ts:202-219
ReadError ==
  /\ UNCHANGED nonChat
  /\ pc = "reading"
  /\ SetCS(Finally(Catch(CS)))

\* React renders the component: the queued updaters run
Render ==
  /\ UNCHANGED nonChat
  /\ pending # <<>>
  /\ SetCS(RenderFn(CS))

\* ------------------------------------------------ chat: the page's use
\* A line of a frame that is not the payload line
IdLine == <<"i", "d", ":", "1">>

\* The frames the server sends in SpecPage: the payload line alone, the
\* payload line after another line of the frame, and before one.
PageFrames ==
  { Frame(Marker \o <<"{", "C", "a", "}">>),
    Frame(Marker \o <<"{", "Q", "1", "}">>),
    Frame(Marker \o <<"{", "F", "x", "}">>),
    Frame(IdLine \o <<LF>> \o Marker \o <<"{", "C", "a", "}">>),
    Frame(Marker \o <<"{", "C", "a", "}">> \o <<LF>> \o IdLine) }

\* reader.read() gives a chunk of one frame: use-langchain-chat.ts:90-200
ReadFrame ==
  /\ UNCHANGED nonChat
  /\ pc = "reading"
  /\ net = <<>>
  /\ chist.frames < MaxPageFrames
  /\ \E value \in PageFrames :
       SetCS([ReadChunkFn(CS, Utf8Encode(value)) EXCEPT !.chist.frames = @ + 1])

\* The event loop goes on with the other sendMessage() call: each call is
\* suspended at its await (of fetch, of reader.read()) and the two take turns.
\* A call that is over leaves its place to the next call, which is numbered
\* after the calls made so far.
Switch ==
  /\ UNCHANGED <<pvars, rvars>>
  /\ pc # "idle" \/ other.pc # "idle"
  /\ pc' = other.pc
  /\ buffer' = other.buffer
  /\ held' = other.held
  /\ turn' = IF other.pc = "idle" /\ other.turn < turn THEN turn ELSE other.turn
  /\ other' = [pc |-> pc, turn |-> turn, buffer |-> buffer, held |-> held]
  /\ UNCHANGED <<messages, pending, isLoading, isStreaming, streamingContent,
                 acc, net, chist, input, reset>>

\* handleInputChange of the page: setInput(e.target.value)
SetInput ==
  /\ UNCHANGED <<pvars, rvars, cvars, reset, other>>
  /\ \E text \in {<<>>, <<"h", "i">>} : text # input /\ input' = text

\* a resetChat() that clears whatever the server answers
ResetChatSettlesAlways(c, in, outcome) ==
  <<[SetMessages(c, Updater("clear", 0, <<>>)) EXCEPT !.streamingContent = <<>>],
    <<>>>>

\* resetChat() from the settling of its fetch on, use-langchain-chat.ts:
\* 228-237, on the chat state c and the input `in`
ResetChatSettles(c, in, outcome) ==
  IF outcome = "ok"
  THEN <<[SetMessages(c, Updater("clear", 0, <<>>)) EXCEPT !.streamingContent = <<>>],
         <<>>>>
  ELSE <<c, in>>

\* resetChat() up to its await of fetch, use-langchain-chat.ts:222-226
ResetChat ==
  /\ UNCHANGED <<pvars, rvars, cvars, input, other>>
  /\ reset.pc = "idle"
  /\ reset.n < MaxReset
  /\ reset' = [reset EXCEPT !.pc = "pending", !.n = @ + 1]

\* the fetch of resetChat() settles: use-langchain-chat.ts:228-237
ResetResponse ==
  /\ UNCHANGED <<pvars, rvars, other>>
  /\ reset.pc = "pending"
  /\ \E outcome \in {"ok", "status", "network"} :
       LET r == ResetChatSettles(CS, input, outcome)
       IN  /\ SetCS(r[1])
           /\ input' = r[2]
           /\ reset' = [reset EXCEPT !.pc = "idle", !.ok = (outcome = "ok")]

\* ------------------------------------------------------- specifications
Init == InitPlay /\ InitRec /\ InitChat /\ net = <<>>

\* a response body of bytes is chosen, to be read in chunks cut anywhere
InitDecode == InitPlay /\ InitRec /\ InitChat /\ net \in NetStreams(MaxNetFrames)

NextPlay ==
  \/ Speak
  \/ SynthOk
  \/ SynthFail
  \/ PlayResolves
  \/ Ended
  \/ PlayRejected
  \/ LoadFails
  \/ DecodeError
  \/ AbortRejected
  \/ StopSpeaking
  \/ Cleanup

NextRec ==
  \/ StartListening
  \/ GetUserMediaOk
  \/ GetUserMediaFail
  \/ StopListening
  \/ RecorderStopped
  \/ SttResponse
  \/ AnimationFrame
  \/ Cleanup

NextChat ==
  \/ SendMessage
  \/ Response
  \/ ReadChunk
  \/ ReadDone
  \/ ReadError
  \/ Render

NextDecode ==
  \/ SendMessage
  \/ Response
  \/ ReadChunkNet
  \/ ReadDone
  \/ Render

vars == <<pvars, rvars, cvars, hvars>>

SpecPlay == Init /\ [][NextPlay]_vars

SpecRec == Init /\ [][NextRec]_vars

SpecChat == Init /\ [][NextChat]_vars

SpecDecode == InitDecode /\ [][NextDecode]_vars

\* sendMessage() is called from the form and from the voice input, which does
\* not wait for the call before it; at most MaxTurns calls are made.
NextPage ==
  \/ other.turn <= turn /\ SendMessage
  \/ Response
  \/ ReadFrame
  \/ ReadDone
  \/ ReadError
  \/ Render
  \/ Switch
  \/ SetInput
  \/ ResetChat
  \/ ResetResponse

SpecPage == Init /\ [][NextPage]_vars

\* The manager used for one thing in a run, speaking or listening, with the
\* browser and the servers answering every request in the end: a pending
\* fetch settles, a pending play() settles, a playing element ends or fails,
\* a stopped recorder delivers its events.
NextLive ==
  \/ listens = 0 /\ Speak
  \/ listens = 0 /\ SynthOk
  \/ listens = 0 /\ SynthFail
  \/ listens = 0 /\ PlayResolves
  \/ listens = 0 /\ Ended
  \/ listens = 0 /\ PlayRejected
  \/ listens = 0 /\ LoadFails
  \/ listens = 0 /\ DecodeError
  \/ listens = 0 /\ AbortRejected
  \/ listens = 0 /\ StopSpeaking
  \/ calls = 0 /\ StartListening
  \/ calls = 0 /\ GetUserMediaOk
  \/ calls = 0 /\ GetUserMediaFail
  \/ calls = 0 /\ StopListening
  \/ calls = 0 /\ RecorderStopped
  \/ calls = 0 /\ SttResponse
  \/ calls = 0 /\ AnimationFrame
  \/ Cleanup

Fairness ==
  /\ WF_vars(SynthOk \/ SynthFail)
  /\ WF_vars(PlayResolves \/ PlayRejected \/ LoadFails)
  /\ WF_vars(Ended \/ DecodeError)
  /\ WF_vars(AbortRejected)
  /\ WF_vars(GetUserMediaOk \/ GetUserMediaFail)
  /\ WF_vars(RecorderStopped)
  /\ WF_vars(SttResponse)

SpecLive == Init /\ [][NextLive]_vars /\ Fairness

\* ------------------------------------------------------------ properties
\* the Audio elements ever appended to the playback queue
Appended == {a \in Items : phase[a] # "none"}

\* the Audio elements whose playback is initiated and neither completed,
\* failed nor paused
Active == {a \in Items : phase[a] \in {"starting", "playing"}}

\* C1: every object URL of an element appended to the queue is released
\* exactly once: never twice, and once the queue is empty, never not at all.
C1_ReleasedExactlyOnce ==
  \A a \in Appended :
    /\ revoked[a] <= 1
    /\ (audioQueue = <<>> => revoked[a] = 1)

\* C2: playback is one at a time: at most one element has playback initiated
\* and not yet completed or failed.
C2_OneAtATime == Cardinality(Active) <= 1

\* every speak() call made so far has been synthesized, played to its natural
\* end and removed, nothing failed and nothing was stopped
AllPlayed ==
  /\ calls >= 1
  /\ \A i \in 1..calls : synth[i] = "ok" /\ phase[i] = "ended"
  /\ audioQueue = <<>>
  /\ ~hist.failed /\ ~hist.stopped

\* C3: n texts passed to speak() one after another without waiting (every
\* call made before any synthesis has answered), every synthesis succeeding:
\* exactly n items are played, in call order, onSpeakStart fires n times and
\* onSpeakEnd once.
C3_BurstPlaysInOrder ==
  (AllPlayed /\ hist.burst) =>
    /\ startLog = [i \in 1..calls |-> i]
    /\ speakStarts = calls
    /\ speakEnds = 1

\* nothing of the recording part is under way
RecQuiet ==
  mediaRecorder # "recording" /\ acquiring = 0 /\ pendingStops = 0 /\ inflight = 0

\* C4: for every stopListening() call made while a recording is open,
\* onSpeechEnd fires exactly once (counted over that call and the dispatch it
\* starts), and afterwards the chunk buffer is empty and no recording is open.
C4_OneSpeechEndPerStop ==
  RecQuiet => /\ signals.endsOfStops = signals.stopsOpen
              /\ audioChunks = 0
\* the partial text and transcript a call would give had the bytes it has
\* read so far arrived as one chunk
Unsplit ==
  ReadChunkFn([CS EXCEPT !.messages = chist.startMessages,
                         !.pending = chist.startPending,
                         !.acc[turn] = NewAssistantMessage,
                         !.buffer = <<>>, !.held = <<>>,
                         !.chist.log = <<>>, !.chist.read = <<>>],
              chist.read)

\* C5: however the stream is cut into chunks, the events applied and the
\* transcript are those of the stream read as one chunk.
C5_ChunkingIrrelevant ==
  pc = "reading" =>
    /\ chist.log = Unsplit.chist.log
    /\ Transcript(CS) = Transcript(Unsplit)

\* the decoder alone: however the stream is cut, the events applied, the text
\* kept in the buffer and the accumulator are those of the stream read as one
\* chunk
DecoderChunkingIrrelevant ==
  pc = "reading" =>
    /\ chist.log = Unsplit.chist.log
    /\ buffer = Unsplit.buffer
    /\ held = Unsplit.held
    /\ acc = Unsplit.acc
    /\ streamingContent = Unsplit.streamingContent
\* ---- the running call's stream, as logged
Log == chist.log

IsToolRequest(e) == e.type = "ai_tool_request" /\ e.tool_calls # Undef

IsToolResponse(e) ==
  /\ e.type = "tool_response"
  /\ Truthy(e.tool_call_id) /\ Truthy(e.tool_name) /\ Truthy(e.content)

IsFinal(e) == e.type = "final_ai_response" /\ Truthy(e.content)

IsClose(e) == IsFinal(e) \/ e.type = "stream_end"

\* a final_ai_response or a stream_end event has been processed
Finalized == \E i \in 1..Len(Log) : IsClose(Log[i])

\* the transcript when the running call began to read its stream
StartTranscript ==
  View(RunQueue(chist.startMessages, acc, chist.startPending), acc)

\* C6: once a final_ai_response or a stream_end event has been processed, no
\* later event of the stream changes the transcript, and the partial text
\* stays cleared.
C6_ImmutableAfterClose ==
  [][(pc = "reading" /\ pc' = "reading" /\ Finalized) =>
       /\ View(RunQueue(messages', acc', pending'), acc') = Transcript(CS)
       /\ streamingContent' = <<>>]_vars

\* a turn made of ai_tool_request events, valid tool_response events and a
\* closing final_ai_response
ToolTurn ==
  /\ Len(Log) >= 1
  /\ IsFinal(Log[Len(Log)])
  /\ \A i \in 1..(Len(Log) - 1) : IsToolRequest(Log[i]) \/ IsToolResponse(Log[i])

RECURSIVE LastToolCalls(_)
\* the tool_calls of the most recent ai_tool_request of a log, [] without one
LastToolCalls(log) ==
  IF log = <<>> THEN <<>>
  ELSE IF IsToolRequest(log[Len(log)]) THEN log[Len(log)].tool_calls
  ELSE LastToolCalls(SubSeq(log, 1, Len(log) - 1))

RECURSIVE AcceptedResponses(_)
\* the tool responses of the valid tool_response events of a log, in order
AcceptedResponses(log) ==
  IF log = <<>> THEN <<>>
  ELSE (IF IsToolResponse(Head(log))
        THEN <<[toolCallId |-> Head(log).tool_call_id,
                toolName |-> Head(log).tool_name,
                content |-> Head(log).content]>>
        ELSE <<>>) \o AcceptedResponses(Tail(log))

\* C7: such a turn leaves exactly one assistant message after the messages
\* the transcript had when the stream began (the last being the user's): its
\* content is the final text, its toolCalls the list of the most recent
\* ai_tool_request, its toolResponses every accepted response in order.
C7_FinalMessageIsAccumulator ==
  (pc = "reading" /\ ToolTurn) =>
    Transcript(CS) =
      Append(StartTranscript,
             [role |-> "assistant",
              content |-> Log[Len(Log)].content,
              toolCalls |-> LastToolCalls(Log),
              toolResponses |-> AcceptedResponses(Log)])

C7_Witness ==
  /\ pc = "reading" /\ ToolTurn /\ pending = <<>>
  /\ \E i \in 1..Len(Log) : IsToolRequest(Log[i])
  /\ \E i \in 1..Len(Log) : IsToolResponse(Log[i])
  /\ StartTranscript[Len(StartTranscript)].role = "user"

\* C8: processing an ai_tool_request replaces the accumulator's tool-call
\* list, clears the accumulator's content and clears the partial text.
C8_ToolRequestClearsContent ==
  (pc = "reading" /\ Len(Log) >= 1 /\ IsToolRequest(Log[Len(Log)])) =>
    /\ acc[turn].toolCalls = Log[Len(Log)].tool_calls
    /\ acc[turn].content = <<>>
    /\ streamingContent = <<>>

\* C9: after a valid tool_response the transcript's last message is an
\* assistant message whose toolResponses are the accumulator's.
C9_ToolResponseUpserted ==
  (pc = "reading" /\ Len(Log) >= 1 /\ IsToolResponse(Log[Len(Log)])) =>
    LET T == Transcript(CS)
    IN  /\ Len(T) >= 1
        /\ T[Len(T)].role = "assistant"
        /\ T[Len(T)].toolResponses = acc[turn].toolResponses

\* C10: the transcript is append-only except for its last message: a step
\* leaves every message before the last unchanged and never shortens the
\* transcript; while a stream is read it changes the last message alone when
\* that is an assistant message, and else may append one assistant message.
C10_AppendOnlyButLast ==
  [][\A T \in {Transcript(CS)} :
     \A U \in {View(RunQueue(messages', acc', pending'), acc')} :
       /\ Len(U) >= Len(T)
       /\ Len(U) <= Len(T) + 1
       /\ \A i \in 1..(Len(T) - 1) : U[i] = T[i]
       /\ (pc = "reading" /\ pc' = "reading") =>
            IF Len(T) >= 1 /\ T[Len(T)].role = "assistant"
            THEN Len(U) = Len(T)
            ELSE Len(U) > Len(T) =>
                   /\ U[Len(U)].role = "assistant"
                   /\ \A i \in 1..Len(T) : U[i] = T[i]]_vars

C10_Witness ==
  /\ pc = "reading" /\ turn = 2 /\ pending = <<>>
  /\ Len(messages) = 4
  /\ messages[2].ref = 1 /\ messages[4].role = "assistant"
  /\ \E i \in 1..Len(Log) : IsToolRequest(Log[i])
RECURSIVE ContentDeltas(_)
\* the deltas of the content events of a log, concatenated in order
ContentDeltas(log) ==
  IF log = <<>> THEN <<>>
  ELSE (IF Head(log).type = "content" /\ Truthy(Head(log).data)
        THEN Head(log).data ELSE <<>>) \o ContentDeltas(Tail(log))

\* the call read a chunk all of whose frames failed to parse
SkippedStep ==
  /\ pc = "reading"
  /\ chist'.skipped > chist.skipped
  /\ chist'.log = chist.log

\* C11: a frame whose payload is not valid JSON is skipped and the stream goes
\* on: in a stream of content frames and malformed frames the partial text is
\* the concatenation of the content deltas in arrival order, and the step that
\* reads malformed frames alone changes neither the transcript, the
\* accumulator nor the partial text.
C11_MalformedFrameSkipped ==
  /\ []((pc = "reading" /\ \A i \in 1..Len(Log) : Log[i].type = "content") =>
          streamingContent = ContentDeltas(Log))
  /\ [][SkippedStep =>
          /\ pc' = "reading"
          /\ View(RunQueue(messages', acc', pending'), acc') = Transcript(CS)
          /\ acc' = acc
          /\ streamingContent' = streamingContent]_vars

C11_Witness ==
  /\ pc = "reading"
  /\ chist.read = Utf8Encode(Frame(Marker \o <<"{", "C", "a", "}">>)
                             \o Frame(Marker \o <<"{", "C", "a">>)
                             \o Frame(Marker \o <<"{", "C", "a", "}">>))
  /\ chist.skipped = 1
  /\ streamingContent = <<"a", "a">>
\* an event that lacks a field its type requires
Lacks(e) ==
  \/ e.type = "content" /\ ~Truthy(e.data)
  \/ e.type = "ai_tool_request" /\ e.tool_calls = Undef
  \/ e.type = "tool_response" /\ ~IsToolResponse(e)
  \/ e.type = "final_ai_response" /\ ~Truthy(e.content)

RECURSIVE ApplyAll(_, _)
\* the events of a sequence applied in order
ApplyAll(c, events) ==
  IF events = <<>> THEN c
  ELSE ApplyAll(ApplyEvent(c, Head(events)), Tail(events))

\* C12: an event that lacks a field required by its type changes neither the
\* accumulator, the transcript nor the partial text, and the events that
\* follow it are applied: a read of the stream leaves what reading the same
\* events without the lacking ones leaves, which is nothing changed when all
\* of them are lacking ones.
C12_LackingEventSkipped ==
  [][(pc = "reading" /\ pc' = "reading" /\ Len(chist'.log) > Len(chist.log)) =>
       \A new \in {SubSeq(chist'.log, Len(chist.log) + 1, Len(chist'.log))} :
       \A c \in {ApplyAll(CS, SelectSeq(new, LAMBDA e : ~Lacks(e)))} :
         /\ acc' = c.acc
         /\ streamingContent' = c.streamingContent
         /\ isStreaming' = c.isStreaming
         /\ messages' = c.messages
         /\ pending' = c.pending
         /\ (\A i \in 1..Len(new) : Lacks(new[i])) =>
              /\ acc' = acc
              /\ streamingContent' = streamingContent
              /\ View(RunQueue(messages', acc', pending'), acc') = Transcript(CS)]_vars

C12_Witness ==
  /\ pc = "reading"
  /\ Len(Log) = 3
  /\ Log[1].type = "tool_response" /\ Lacks(Log[1])
  /\ Log[2].type = "final_ai_response" /\ Lacks(Log[2])
  /\ Log[3].type = "content" /\ ~Lacks(Log[3])
  /\ streamingContent = Log[3].data
  /\ Transcript(CS) = StartTranscript
\* the elements of the playback queue
Queued == {audioQueue[i] : i \in 1..Len(audioQueue)}

\* C13: stopSpeaking() on a non-empty queue empties it, clears isPlaying,
\* releases the object URL of every queued element and fires onSpeakEnd once,
\* and nothing else; on an empty queue it changes no state and fires no signal,
\* so that a second call in a row does nothing.
C13_StopSpeakingContract ==
  [][StopSpeaking =>
       /\ audioQueue' = <<>>
       /\ ~isPlaying'
       /\ StopSpeakingFn(StopSpeakingFn(PB)) = StopSpeakingFn(PB)
       /\ IF audioQueue # <<>>
          THEN /\ \A a \in Items :
                    revoked'[a] = revoked[a] + (IF a \in Queued THEN 1 ELSE 0)
               /\ speakEnds' = speakEnds + 1
               /\ speakStarts' = speakStarts
               /\ playErrors' = playErrors
               /\ startLog' = startLog
          ELSE UNCHANGED <<audioQueue, isPlaying, phase, revoked, speakStarts,
                           speakEnds, playErrors, startLog>>]_vars

C13_Witness ==
  /\ hist.stopped
  /\ audioQueue = <<>> /\ ~isPlaying
  /\ speakEnds = 1
  /\ \E a \in Items : phase[a] = "new" /\ revoked[a] = 1
  /\ \E a \in Items : phase[a] \in {"paused", "aborting"} /\ revoked[a] = 1
\* C14: isPlaying is true exactly when the queue is non-empty and the playback
\* of its head has been initiated and has neither completed nor failed.
C14_IsPlayingIffHeadActive ==
  isPlaying <=> (audioQueue # <<>> /\ Head(audioQueue) \in Active)
C14_Witness ==
  /\ isPlaying
  /\ audioQueue # <<>> /\ phase[Head(audioQueue)] = "playing"
  /\ hist.failed
  /\ speakStarts >= 2
\* the playback of the head of the queue ends or fails in this step
HeadDone ==
  /\ audioQueue # <<>>
  /\ Head(audioQueue) \in Active
  /\ phase'[Head(audioQueue)] \in {"ended", "failed", "blocked"}

\* C15: when the playback of the head ends or fails, the head is removed and
\* the next element, if any, begins playing; when that leaves the queue empty,
\* isPlaying is cleared and onSpeakEnd fires exactly once.
C15_HeadDoneAdvances ==
  [][HeadDone =>
       /\ audioQueue' = Tail(audioQueue)
       /\ IF Tail(audioQueue) # <<>>
          THEN /\ isPlaying'
               /\ phase'[Head(Tail(audioQueue))] = "starting"
               /\ speakStarts' = speakStarts + 1
               /\ speakEnds' = speakEnds
          ELSE /\ ~isPlaying'
               /\ speakEnds' = speakEnds + 1]_vars
\* the synthesis of a speak() call fails in this step
SynthesisFails == \E k \in Items : synth[k] = "inflight" /\ synth'[k] = "failed"

\* C16: when the synthesis of a speak() call fails, nothing is appended to the
\* queue, one error is reported, the queue, isPlaying and every element are as
\* they were, and neither onSpeakStart nor onSpeakEnd fires.
C16_SynthesisFailureIsolated ==
  [][SynthesisFails =>
       /\ playErrors' = playErrors + 1
       /\ UNCHANGED <<audioQueue, isPlaying, phase, revoked, speakStarts,
                      speakEnds, startLog>>]_vars

C16_Witness ==
  /\ \E k \in Items : synth[k] = "failed"
  /\ playErrors = 1
  /\ isPlaying /\ Len(audioQueue) = 2
  /\ phase[Head(audioQueue)] = "playing"
\* C17: the stop of a recording whose chunk buffer is empty sends no request
\* to the transcription endpoint: one error is reported, onSpeechResult is not
\* called, onSpeechEnd is, and no recording is opened.
C17_EmptyRecordingNotSent ==
  [][signals'.emptyStops > signals.emptyStops =>
       /\ signals'.sttRequest = signals.sttRequest
       /\ inflight' = inflight
       /\ signals'.error = signals.error + 1
       /\ signals'.speechResult = signals.speechResult
       /\ signals'.speechEnd = signals.speechEnd + 1
       /\ audioChunks' = 0
       /\ mediaRecorder' = mediaRecorder]_vars

C17_Witness ==
  /\ signals.emptyStops = 1
  /\ signals.sttRequest = 0 /\ signals.speechResult = 0
  /\ signals.error = 1
  /\ signals.speechStart = 1
  /\ RecQuiet
\* the streams acquired whose tracks are not stopped, the contexts created
\* and not closed
LiveStreams == env.streams - env.stopped
LiveContexts == env.contexts - env.closed

\* C18: at most one capture session is live: never more than one acquired and
\* unreleased microphone stream, audio context or sampling loop.
C18_OneCaptureSession ==
  /\ LiveStreams <= 1
  /\ LiveContexts <= 1
  /\ Cardinality(rafPending) <= 1
\* C19: when an acquisition fails, no partial resource remains: the manager,
\* which held nothing before, holds no stream, context, analyser or source node
\* afterwards, has started no sampling loop and has left no stream or context
\* live.
C19_AcquisitionRollsBack ==
  [][(signals'.acquireFailed > signals.acquireFailed /\ ~stream) =>
       /\ ~stream' /\ ~audioContext' /\ ~analyser' /\ ~microphone'
       /\ rafPending' = rafPending
       /\ env'.streams - env'.stopped = LiveStreams
       /\ env'.contexts - env'.closed = LiveContexts]_vars
\* C20: startListening() called while a recording is open does nothing: the
\* recorder and the chunk buffer are as they were, no signal fires, nothing is
\* acquired and the recording stays open.
C20_StartWhileRecordingNoOp ==
  [][(listens' = listens + 1 /\ mediaRecorder = "recording") =>
       /\ mediaRecorder' = "recording"
       /\ UNCHANGED <<stream, audioContext, analyser, microphone, dataArray,
                      animationFrame, audioChunks, acquiring, pendingStops,
                      inflight, rafPending, env, signals>>]_vars

C20_Witness ==
  /\ listens = 2
  /\ mediaRecorder = "recording"
  /\ acquiring = 0 /\ env.streams = 1
  /\ signals.speechStart = 1 /\ signals.speechEnd = 0 /\ signals.error = 0
\* the fields of the manager's capture and recording part
Held(r) ==
  <<r.stream, r.audioContext, r.analyser, r.microphone, r.animationFrame,
    r.mediaRecorder, r.audioChunks, r.rafPending, r.env>>

\* C21: cleanup() may be called in any state; after it no recording is open,
\* the playback queue is empty with every queued URL released and isPlaying
\* false, no sampling loop is scheduled, and the stream, the source node, the
\* analyser and the audio context are released; a second cleanup() changes
\* nothing further.
C21_CleanupReleasesAll ==
  [][cleanups' = cleanups + 1 =>
       /\ mediaRecorder' # "recording"
       /\ audioQueue' = <<>> /\ ~isPlaying'
       /\ \A a \in Queued : revoked'[a] >= 1
       /\ rafPending' = {} /\ animationFrame' = 0
       /\ ~stream' /\ ~microphone' /\ ~analyser' /\ ~audioContext'
       /\ env'.streams - env'.stopped = 0
       /\ env'.contexts - env'.closed = 0
       /\ Held(CleanupFn(CleanupFn(RS))) = Held(CleanupFn(RS))
       /\ StopSpeakingFn(StopSpeakingFn(PB)) = StopSpeakingFn(PB)]_vars
\* cleanup() has been called and startListening() has not been called since
CleanedUp == cleanups >= 1 /\ listens = signals.cleanedAt

\* C22: the sampling loop does not outlive cleanup(): as long as
\* startListening() is not called again, no scheduled animation frame finds
\* the analysis graph in place, so that onAudioLevel is not invoked and no
\* frame is requested.
C22_NoSamplingAfterCleanup ==
  CleanedUp => ~(rafPending # {} /\ CanSample(RS))
\* the playback part is idle, with onSpeakEnd fired if onSpeakStart was
PlayIdle == ~isPlaying /\ (speakStarts > 0 => speakEnds > 0)

\* nothing of the recording part is pending, with onSpeechEnd fired
RecSettled ==
  acquiring = 0 /\ pendingStops = 0 /\ inflight = 0 /\ signals.speechEnd > 0

C24_ResetClearsOnlyOnOk ==
  [][/\ (reset.pc = "idle" /\ reset'.pc = "pending") =>
          UNCHANGED <<messages, pending, input, streamingContent>>
     /\ (reset.pc = "pending" /\ reset'.pc = "idle") =>
          IF reset'.ok
          THEN /\ View(RunQueue(messages', acc', pending'), acc') = <<>>
               /\ input' = <<>>
               /\ streamingContent' = <<>>
          ELSE UNCHANGED <<messages, pending, input, streamingContent>>]_vars

C24_Witness ==
  /\ reset.pc = "idle" /\ reset.n > 0 /\ ~reset.ok
  /\ messages # <<>> /\ input # <<>> /\ streamingContent # <<>>
RECURSIVE FrameLines(_, _)
\* the lines of a frame: the pieces of cur \o str between line feeds
FrameLines(cur, str) ==
  IF str = <<>> THEN <<cur>>
  ELSE IF Head(str) = LF THEN <<cur>> \o FrameLines(<<>>, Tail(str))
  ELSE FrameLines(Append(cur, Head(str)), Tail(str))

\* the frame has a line with the data marker and a valid JSON payload
HasDataLine(f) ==
  \E i \in 1..Len(FrameLines(<<>>, f)) :
    LET line == FrameLines(<<>>, f)[i]
    IN  StartsWith(line, Marker) /\ JsonParse(Slice(line, 6)) # SyntaxError

\* C25: every frame that has a line with the data marker and a valid JSON
\* payload yields exactly one event, whether that line is the only line of
\* the frame or comes after or before other lines of it.
C25_DataLineYieldsOneEvent ==
  [][\A f \in PageFrames :
       (/\ pc = "reading" /\ chist'.frames = chist.frames + 1
        /\ chist'.read = chist.read \o Utf8Encode(f)
        /\ HasDataLine(f))
       => Len(chist'.log) = Len(chist.log) + 1]_vars
\* C26: once cleanup() is called while a recording is open, no request is
\* sent to the transcription endpoint for that recording, and no
\* onSpeechResult, onError or onSpeechEnd is delivered after cleanup() has
\* returned (startListening() not being called again, and but for the
\* onSpeechEnd of a stopListening() the caller makes itself).
C26_CleanupSilencesRecording ==
  [][(/\ CleanedUp /\ signals.cleanedOpen
      /\ listens' = listens /\ stops' = stops) =>
       /\ signals'.sttRequest = signals.sttRequest
       /\ signals'.speechResult = signals.speechResult
       /\ signals'.error = signals.error
       /\ signals'.speechEnd = signals.speechEnd]_vars
\* C27: after stopSpeaking() or cleanup() has returned, and as long as speak()
\* is not called again, no item starts playing and onSpeakStart does not
\* fire, a synthesis that was in flight enqueues nothing, and the play()
\* rejection the stop causes fires no second onSpeakEnd.
C27_StopIsFinal ==
  [][(/\ hist.quiet /\ calls' = calls
      /\ ~StopSpeaking /\ ~Cleanup) =>
       /\ speakStarts' = speakStarts
       /\ Len(audioQueue') <= Len(audioQueue)
       /\ speakEnds' = speakEnds]_vars
\* C28: the listening signals match the recorder: whenever a recording is
\* open the most recent listening signal is onSpeechStart (so the onSpeechEnd
\* of an earlier recording's dispatch does not fire while a later recording
\* is open), and a recording is started only when no recorder stop and no
\* dispatch is pending.
C28_SignalsMatchRecorder ==
  /\ [](mediaRecorder = "recording" => signals.last = "start")
  /\ [][(mediaRecorder # "recording" /\ mediaRecorder' = "recording") =>
          (pendingStops = 0 /\ inflight = 0)]_vars
\* the user messages of a transcript
UserMessages(T) == {i \in 1..Len(T) : T[i].role = "user"}

\* the apology as the transcript shows it
ApologyShown ==
  [role |-> "assistant", content |-> Apology, toolCalls |-> Undef,
   toolResponses |-> Undef]

\* C29: every sendMessage() call with a non-blank text ends its bookkeeping on
\* every path: when the call is over isLoading and isStreaming are false and
\* the partial text is empty, the user messages of the calls made are in the
\* transcript, and on a failure path (fetch rejected, non-2xx status, no body,
\* read error) exactly one apology has been appended to the transcript, after
\* the user message; on the path without failure none is.
C29_SendMessageTerminates ==
  [][(pc # "idle" /\ pc' = "idle") =>
       \A T \in {Transcript(CS)} :
       \A U \in {View(RunQueue(messages', acc', pending'), acc')} :
         /\ ~isLoading' /\ ~isStreaming' /\ streamingContent' = <<>>
         /\ Cardinality(UserMessages(U)) = turn
         /\ \A i \in UserMessages(U) : U[i].content = <<"h", "i">>
         /\ IF ReadDone THEN U = T
            ELSE /\ U = Append(T, ApologyShown)
                 /\ UserMessages(T) # {}]_vars

C29_Witness ==
  /\ pc = "idle" /\ turn = 2 /\ chist.frames >= 1
  /\ LET T == Transcript(CS)
     IN  /\ Len(T) >= 3
         /\ T[Len(T)] = ApologyShown
         /\ T[Len(T) - 1].role = "assistant"
\* C30: the events of one turn change no message of another turn and do not
\* survive a reset.  A stream that reads on after a resetChat() answered with
\* a 2xx status has emptied the transcript leaves it empty; and a stream that
\* has not yet had an event of its own applied changes no message that is in
\* the transcript (they are those of other calls).
C30_TurnsAreIsolated ==
  [][(pc = "reading" /\ pc' = "reading" /\ turn' = turn /\ reset' = reset) =>
       \A T \in {Transcript(CS)} :
       \A U \in {View(RunQueue(messages', acc', pending'), acc')} :
         /\ (reset.pc = "idle" /\ reset.ok /\ T = <<>>) => U = <<>>
         /\ acc[turn] = NewAssistantMessage =>
              (Len(U) >= Len(T) /\ SubSeq(U, 1, Len(T)) = T)]_vars
====
